---- MODULE Spec2Model ----
(***************************************************************************)
(* Authentication and error-normalisation pipeline of drive-me:            *)
(* registration, login, logout, the token gate, the token blacklist and    *)
(* the global error handler.  One action is one stretch of handler code    *)
(* between two awaits (Node runs such a stretch without interleaving).     *)
(* Time is counted in seconds.                                             *)
(***************************************************************************)
EXTENDS Integers, Sequences, FiniteSets, TLC

VARIABLES
    nodeEnv,      \* process.env.NODE_ENV
    jwtSecret,    \* process.env.JWT_SECRET ("" when unset)
    users,        \* "users" collection
    captains,     \* "captains" collection
    blacklist,    \* "blacklisttokens" collection
    nextId,       \* source of fresh ObjectIds
    now,          \* wall clock, seconds
    issued,       \* tokens handed to clients in a login cookie
    runs,         \* one record per request slot
    started,      \* requests received so far
    errIn,        \* error handler exercised alone: the failure given to it
    errOut,       \* error handler exercised alone: what it produced
    revokedLog,   \* history: the tokens a captain logout has blacklisted
    dto           \* services exercised alone: the data given to create

vars == <<nodeEnv, jwtSecret, users, captains, blacklist, nextId, now, issued,
          runs, started, errIn, errOut, revokedLog, dto>>

----------------------------------------------------------------------------
(* Bounds of the model *)

MaxTime == 129600
ClockStep == 43200
MaxTokens == 2
MaxRequests == 3

Runs == {"r1", "r2"}
Emails == {"a@b.com", "c@d.com"}
BadEmail == "not-an-email"
Passwords == {"longpass1", "longpass2", "short"}
RegisterPasswords == {"longpass1", "short"}
Salts == {"s1"}
Secret == "jwt-secret"
AttackerKey == "attacker-key"
Garbage == "garbage"

\* JavaScript's undefined, as it prints in a template string
Undefined == "undefined"

----------------------------------------------------------------------------
(* http-status-codes *)

BAD_REQUEST == 400
UNAUTHORIZED == 401
FORBIDDEN == 403
NOT_FOUND == 404
CONFLICT == 409
UNPROCESSABLE_ENTITY == 422
INTERNAL_SERVER_ERROR == 500
NOT_IMPLEMENTED == 501
SERVICE_UNAVAILABLE == 503
OK == 200
CREATED == 201

getReasonPhrase(code) ==
    CASE code = BAD_REQUEST -> "Bad Request"
      [] code = UNAUTHORIZED -> "Unauthorized"
      [] code = FORBIDDEN -> "Forbidden"
      [] code = NOT_FOUND -> "Not Found"
      [] code = CONFLICT -> "Conflict"
      [] code = UNPROCESSABLE_ENTITY -> "Unprocessable Entity"
      [] code = INTERNAL_SERVER_ERROR -> "Internal Server Error"
      [] code = NOT_IMPLEMENTED -> "Not Implemented"
      [] code = SERVICE_UNAVAILABLE -> "Service Unavailable"
      [] OTHER -> "Unknown"

----------------------------------------------------------------------------
(* utils/AppError *)

RECURSIVE LeadingDigit(_)
LeadingDigit(n) == IF n < 10 THEN n ELSE LeadingDigit(n \div 10)

\* new AppError(message, statusCode, errorType, details, isOperational)
AppError(name, message, statusCode, errorType, details, isOperational) ==
    [shape |-> "AppError",
     name |-> name,
     message |-> message,
     statusCode |-> statusCode,
     status |-> IF LeadingDigit(statusCode) = 4 THEN "fail" ELSE "error",
     errorType |-> errorType,
     details |-> details,
     isOperational |-> isOperational]

\* the constructor's default for its last parameter
DefaultIsOperational == TRUE

BadRequest(message, details) ==
    AppError("BadRequest", message, BAD_REQUEST, getReasonPhrase(BAD_REQUEST),
             details, DefaultIsOperational)

UnauthorizedDefaultMessage == "Unauthorized access"

Unauthorized(message) ==
    AppError("Unauthorized", message, UNAUTHORIZED, getReasonPhrase(UNAUTHORIZED),
             <<>>, DefaultIsOperational)

Forbidden(message) ==
    AppError("Forbidden", message, FORBIDDEN, getReasonPhrase(FORBIDDEN),
             <<>>, DefaultIsOperational)

NotFound(resource) ==
    AppError("NotFound", resource \o " not found", NOT_FOUND,
             getReasonPhrase(NOT_FOUND), <<>>, DefaultIsOperational)

Conflict(message, details) ==
    AppError("Conflict", message, CONFLICT, getReasonPhrase(CONFLICT),
             details, DefaultIsOperational)

ValidationProblem(details) ==
    AppError("ValidationProblem", "Validation failed", UNPROCESSABLE_ENTITY,
             getReasonPhrase(UNPROCESSABLE_ENTITY), details, DefaultIsOperational)

InternalServerError(details) ==
    AppError("InternalServerError",
             "An unexpected error occured. Please try again later.",
             INTERNAL_SERVER_ERROR, getReasonPhrase(INTERNAL_SERVER_ERROR),
             details, DefaultIsOperational)

NotImplemented(details) ==
    AppError("NotImplemented", "Feature not implemented yet", NOT_IMPLEMENTED,
             getReasonPhrase(NOT_IMPLEMENTED), details, DefaultIsOperational)

ServiceUnavailable(details) ==
    AppError("ServiceUnavailable", "Service unavailable", SERVICE_UNAVAILABLE,
             getReasonPhrase(SERVICE_UNAVAILABLE), details, DefaultIsOperational)

----------------------------------------------------------------------------
(* middlewares/error.middleware *)

NoError == [shape |-> "null"]

\* a plain Error, or one of jsonwebtoken's errors, told apart by its name
RawError(name, message) == [shape |-> "Error", name |-> name, message |-> message]

\* mongoose.Error.ValidationError; errors lists {path, message, value}
MongooseValidationError(errors) ==
    [shape |-> "ValidationError", name |-> "ValidationError",
     message |-> "Validation failed", errors |-> errors]

\* mongoose.Error.CastError
MongooseCastError(path, value) ==
    [shape |-> "CastError", name |-> "CastError",
     message |-> "Cast failed", path |-> path, value |-> value]

\* MongoServerError; keyValue lists the <<field, value>> pairs of the index key
MongoServerError(code, keyValue) ==
    [shape |-> "MongoServerError", name |-> "MongoServerError",
     message |-> "E11000 duplicate key error", code |-> code,
     keyValue |-> keyValue]

DUPLICATE_KEY == 11000

\* a mapping that stops at the first offending field
ValidationDetails_FirstOnly(errors) ==
    [i \in 1..(IF Len(errors) > 0 THEN 1 ELSE 0) |->
        [field |-> errors[i].path, message |-> errors[i].message,
         value |-> errors[i].value]]

ValidationDetails(errors) ==
    [i \in 1..Len(errors) |->
        [field |-> errors[i].path, message |-> errors[i].message,
         value |-> errors[i].value]]

\* a normalizer that does not know the duplicate-key error
handleMongoError_NoDuplicateKey(err) ==
    IF err.shape = "ValidationError"
    THEN ValidationProblem(ValidationDetails(err.errors))
    ELSE IF err.shape = "CastError"
    THEN BadRequest("Invalid " \o err.path \o ": " \o err.value, <<>>)
    ELSE NoError

handleMongoError(err) ==
    IF err.shape = "ValidationError"
    THEN ValidationProblem(ValidationDetails(err.errors))
    ELSE IF err.shape = "CastError"
    THEN BadRequest("Invalid " \o err.path \o ": " \o err.value, <<>>)
    ELSE IF err.shape = "MongoServerError" /\ err.code = DUPLICATE_KEY
    THEN LET field == IF Len(err.keyValue) > 0 THEN err.keyValue[1][1] ELSE "unknown"
             value == IF Len(err.keyValue) > 0 THEN err.keyValue[1][2] ELSE Undefined
         IN Conflict("Duplicate field value: " \o field \o " = " \o value
                        \o ". Please use another value!",
                     <<[field |-> field, message |-> value \o " already exists",
                        value |-> value]>>)
    ELSE NoError

handleJWTError == Unauthorized("Invalid token. Please log in again!")

handleJWTExpiredError == Unauthorized("Your token has expired! Please log in again.")

\* the normalisation at the head of errorHandler
NormalizeError(err) ==
    LET mongoError == handleMongoError(err)
    IN IF mongoError # NoError THEN mongoError
       ELSE IF err.name = "JsonWebTokenError" THEN handleJWTError
       ELSE IF err.name = "TokenExpiredError" THEN handleJWTExpiredError
       ELSE IF err.shape # "AppError"
       THEN AppError("AppError",
                     IF err.message # "" THEN err.message ELSE "Internal Server Error",
                     INTERNAL_SERVER_ERROR, "error", <<>>, DefaultIsOperational)
       ELSE err

\* new Date().toISOString(): the text is a time stamp whatever the time; its
\* digits are not followed further
IsoString(t) == "ISO-8601"

\* what a response helper or an error serializer hands to res.status().json()
Response(status, body) == [status |-> status, body |-> body]

sendErrorDevelopment(err, t) ==
    Response(err.statusCode,
             [status |-> err.status, message |-> err.message,
              errorType |-> err.errorType, details |-> err.details,
              stack |-> err.name \o ": " \o err.message,
              timestamp |-> IsoString(t)])

sendErrorProduction(err, t) ==
    IF err.isOperational
    THEN Response(err.statusCode,
                  [status |-> err.status, message |-> err.message,
                   errorType |-> err.errorType, details |-> err.details,
                   timestamp |-> IsoString(t)])
    ELSE Response(INTERNAL_SERVER_ERROR,
                  [status |-> "error", message |-> "Something went wrong!",
                   timestamp |-> IsoString(t)])

\* errorHandler: normalise, then serialise for the environment
errorHandler(err, env, t) ==
    IF env = "development"
    THEN sendErrorDevelopment(NormalizeError(err), t)
    ELSE sendErrorProduction(NormalizeError(err), t)

----------------------------------------------------------------------------
(* middlewares/response.middleware *)

\* res.ok(data, message)
ResOk(data, message, t) ==
    Response(OK, [success |-> TRUE, message |-> message, data |-> data,
                  meta |-> [timestamp |-> IsoString(t)]])

\* res.created(data, message)
\* res.created that passes the message on as it was given
ResCreated_NoDefault(data, message, t) ==
    Response(CREATED,
             [success |-> TRUE, message |-> message,
              data |-> data, meta |-> [timestamp |-> IsoString(t)]])

ResCreated(data, message, t) ==
    Response(CREATED,
             [success |-> TRUE,
              message |-> IF message # Undefined /\ message # ""
                          THEN message ELSE "Resource created successfully",
              data |-> data, meta |-> [timestamp |-> IsoString(t)]])

NO_CONTENT == 204

\* res.noContent: the status and the object handed to res.json
ResNoContent(message, t) ==
    Response(NO_CONTENT,
             [success |-> TRUE,
              message |-> IF message # Undefined /\ message # ""
                          THEN message ELSE "No content",
              meta |-> [timestamp |-> IsoString(t)]])

----------------------------------------------------------------------------
(* jsonwebtoken and bcryptjs, as the models use them *)

\* expiresIn: "24h"
TokenLifetime == 24 * 3600

Times == {k * ClockStep : k \in 0..(MaxTime \div ClockStep)}
ActorIds == 1..(2 * Cardinality(Emails))
Keys == {Secret, AttackerKey}

\* jwt.sign({ _id }, key, { expiresIn: "24h" }) at time t
JwtSign(id, key, t) ==
    "jwt." \o ToString(id) \o "." \o ToString(t) \o "."
           \o ToString(t + TokenLifetime) \o "." \o key

\* the header.payload.signature triples a string can decode to
JwtDecode(token) ==
    {c \in ActorIds \X Times \X Keys : JwtSign(c[1], c[3], c[2]) = token}

\* a verification that ignores the expiry
JwtVerify_NoExpiry(token, key, t) ==
    LET parsed == JwtDecode(token)
    IN IF parsed = {}
       THEN [ok |-> FALSE, _id |-> 0,
             error |-> RawError("JsonWebTokenError", "jwt malformed")]
       ELSE LET c == CHOOSE x \in parsed : TRUE
            IN IF c[3] # key
               THEN [ok |-> FALSE, _id |-> 0,
                     error |-> RawError("JsonWebTokenError", "invalid signature")]
               ELSE [ok |-> TRUE, _id |-> c[1], error |-> NoError]

\* a verification that takes the time of issue for the time of expiry
JwtVerify_ExpiresAtIssue(token, key, t) ==
    LET parsed == JwtDecode(token)
    IN IF parsed = {}
       THEN [ok |-> FALSE, _id |-> 0,
             error |-> RawError("JsonWebTokenError", "jwt malformed")]
       ELSE LET c == CHOOSE x \in parsed : TRUE
            IN IF c[3] # key
               THEN [ok |-> FALSE, _id |-> 0,
                     error |-> RawError("JsonWebTokenError", "invalid signature")]
               ELSE IF t >= c[2]
               THEN [ok |-> FALSE, _id |-> 0,
                     error |-> RawError("TokenExpiredError", "jwt expired")]
               ELSE [ok |-> TRUE, _id |-> c[1], error |-> NoError]

\* a verification that accepts a signature made with any key
JwtVerify_AnyKey(token, key, t) ==
    LET parsed == JwtDecode(token)
    IN IF parsed = {}
       THEN [ok |-> FALSE, _id |-> 0,
             error |-> RawError("JsonWebTokenError", "jwt malformed")]
       ELSE LET c == CHOOSE x \in parsed : TRUE
            IN IF t >= c[2] + TokenLifetime
               THEN [ok |-> FALSE, _id |-> 0,
                     error |-> RawError("TokenExpiredError", "jwt expired")]
               ELSE [ok |-> TRUE, _id |-> c[1], error |-> NoError]

\* jwt.verify(token, key) at time t: the claims, or the error it throws
JwtVerify(token, key, t) ==
    LET parsed == JwtDecode(token)
    IN IF parsed = {}
       THEN [ok |-> FALSE, _id |-> 0,
             error |-> RawError("JsonWebTokenError", "jwt malformed")]
       ELSE LET c == CHOOSE x \in parsed : TRUE
            IN IF c[3] # key
               THEN [ok |-> FALSE, _id |-> 0,
                     error |-> RawError("JsonWebTokenError", "invalid signature")]
               ELSE IF t >= c[2] + TokenLifetime
               THEN [ok |-> FALSE, _id |-> 0,
                     error |-> RawError("TokenExpiredError", "jwt expired")]
               ELSE [ok |-> TRUE, _id |-> c[1], error |-> NoError]

MissingSecretMessage ==
    "JWT key is not defined. Please ensure it is defined in the environment variables."

\* a hash that is the password itself
BcryptHash_Plain(password, salt) == password

\* bcrypt.hash(password, 10) with the salt it drew
BcryptHash(password, salt) == "$2a$10$" \o salt \o "$" \o password

\* a comparison that accepts every password
BcryptCompare_Always(password, hash) == TRUE

\* bcrypt.compare(password, hash)
BcryptCompare(password, hash) == \E s \in Salts : hash = BcryptHash(password, s)

----------------------------------------------------------------------------
(* The collections *)

NoActor == [_id |-> 0, email |-> "", password |-> ""]

\* model.findOne({ email })
FindOneByEmail(coll, email) ==
    IF \E a \in coll : a.email = email
    THEN CHOOSE a \in coll : a.email = email
    ELSE NoActor

\* model.findById(id)
FindById(coll, id) ==
    IF \E a \in coll : a._id = id
    THEN CHOOSE a \in coll : a._id = id
    ELSE NoActor

\* a collection without the unique index
EmailTaken_NoIndex(coll, email) == FALSE

\* the unique index on email: does the insert of this email collide?
EmailTaken(coll, email) == \E a \in coll : a.email = email

\* a lookup that never finds an entry
BlacklistFindOne_Blind(bl, token) == {}

\* a lookup that finds the entries of every token of the same actor
BlacklistFindOne_ByActor(bl, token) ==
    {e \in bl : \/ e.token = token
                \/ \E c \in JwtDecode(e.token), d \in JwtDecode(token) : c[1] = d[1]}

\* blacklistToken.findOne({ token })
BlacklistFindOne(bl, token) == {e \in bl : e.token = token}

\* the unique index on token
TokenTaken(bl, token) == \E e \in bl : e.token = token

\* expires: 86400 on createdAt
BlacklistTTL == 86400

\* a serialization without the transform
ToJSON_Raw(actor) == actor

\* the toJSON / toObject transform of both schemas
ToJSON(actor) == [f \in (DOMAIN actor) \ {"password"} |-> actor[f]]

----------------------------------------------------------------------------
(* A request in flight *)

NoResponse == Response(0, [none |-> TRUE])
NoCookie == [name |-> "", value |-> "", httpOnly |-> FALSE]

\* JavaScript values carried in the data field of a success body
JsNull == [null |-> TRUE]
JsString(s) == [string |-> s]

IdleRun ==
    [kind |-> "idle", variant |-> "", pc |-> "idle",
     email |-> "", password |-> "", hash |-> "",
     cookie |-> "", auth |-> <<>>, token |-> "", decodedId |-> 0,
     res |-> NoResponse, sends |-> 0, errCalls |-> 0, raw |-> NoError,
     nextCalled |-> FALSE, steps |-> <<>>, setCookie |-> NoCookie,
     cleared |-> FALSE, user |-> NoActor]

Vacant(r) == runs[r].pc \in {"idle", "done"}
SlotOrder(r) == IF r = "r1" THEN 1 ELSE 2

\* the requests explored side by side are those that meet in one collection:
\* registrations with registrations, gate and captain-logout runs with each
\* other, a user logout with gate runs; every other request is received while
\* no request is in flight
Family(kind) ==
    IF kind = "register" THEN {"register"}
    ELSE IF kind \in {"gate", "logout"} THEN {"gate", "logout"}
    ELSE IF kind = "userLogout" THEN {"gate"}
    ELSE {}

\* request r of this kind can be received: it takes the first slot that holds
\* no request in flight
Free(r, kind) ==
    /\ Vacant(r)
    /\ \A q \in Runs : Vacant(q) => SlotOrder(r) <= SlotOrder(q)
    /\ \A q \in Runs : Vacant(q) \/ runs[q].kind \in Family(kind)
    /\ started < MaxRequests

\* res.status(code).json(body): only the first call reaches the client, a
\* later one throws ERR_HTTP_HEADERS_SENT and changes nothing on the wire
Send(run, resp) ==
    IF run.sends = 0
    THEN [run EXCEPT !.res = resp, !.sends = 1]
    ELSE [run EXCEPT !.sends = @ + 1]

\* asyncHandler: a rejection of the handler goes to next(err), which is the
\* errorHandler registered last in app.ts
asyncHandlerCatch(run, err, env, t) ==
    Send([run EXCEPT !.raw = err, !.errCalls = @ + 1, !.pc = "done"],
         errorHandler(err, env, t))

\* an extraction that prefers the header to the cookie
ExtractToken_HeaderFirst(cookie, auth) ==
    IF Len(auth) >= 2 THEN auth[2] ELSE cookie

\* req.cookies.token || req.headers.authorization?.split(" ")[1]
\* the header is the sequence of its space-separated parts, <<>> when absent
ExtractToken(cookie, auth) ==
    IF cookie # "" THEN cookie
    ELSE IF Len(auth) >= 2 THEN auth[2] ELSE ""

\* the slots once request r has been received: exchanges that are over are
\* dropped from the record
Receive(r, run) ==
    [q \in Runs |-> IF q = r THEN run
                    ELSE IF runs[q].pc = "done" THEN IdleRun ELSE runs[q]]

Coll(v) == IF v = "user" THEN users ELSE captains

----------------------------------------------------------------------------
(* express-validator chains of the routes *)

isEmail(e) == e \in Emails
MinPasswordLength == 8

FieldError(path, msg, value) ==
    [type |-> "field", value |-> value, msg |-> msg, path |-> path,
     location |-> "body"]

EmailErrors(v, email) ==
    IF isEmail(email) THEN <<>>
    ELSE <<FieldError("email",
                      IF v = "user" THEN "Invalid email" ELSE "Invalid email address",
                      email)>>

PasswordErrors(password) ==
    IF Len(password) >= MinPasswordLength THEN <<>>
    ELSE <<FieldError("password", "Password must be at least 8 characters long",
                      password)>>

\* validationResult(req).array() for the register and login routes
validationResult(v, email, password) == EmailErrors(v, email) \o PasswordErrors(password)

InvalidPayloadMessage == "Invalid request payload. Kindly specify all required fields."

----------------------------------------------------------------------------
(* Registration: controllers' register and services' createUser / createCaptain *)

RegisteredMessage(v) ==
    IF v = "user" THEN "User created successfully" ELSE "Captain registered successfully"

ExistsMessage(v) ==
    IF v = "user" THEN "User already exists" ELSE "Captain already exists"

\* register up to the await of createUser's findOne
RegisterStart(v, r, email, password, salt) ==
    /\ Free(r, "register")
    /\ LET errors == validationResult(v, email, password)
           run == [IdleRun EXCEPT !.kind = "register", !.variant = v,
                                  !.email = email, !.password = password]
       IN runs' = Receive(r,
            IF errors # <<>>
            THEN asyncHandlerCatch(run, BadRequest(InvalidPayloadMessage, errors),
                                   nodeEnv, now)
            ELSE IF email = "" \/ password = ""
            THEN asyncHandlerCatch(run, BadRequest(InvalidPayloadMessage, <<>>),
                                   nodeEnv, now)
            ELSE LET hashed == [run EXCEPT !.hash = BcryptHash(password, salt)]
                 IN IF hashed.email = "" \/ hashed.hash = ""
                    THEN asyncHandlerCatch(hashed, ValidationProblem(<<>>), nodeEnv, now)
                    ELSE [hashed EXCEPT !.pc = "findOne"])
    /\ started' = started + 1
    /\ UNCHANGED <<nodeEnv, jwtSecret, users, captains, blacklist, nextId, now,
                   issued, errIn, errOut, revokedLog, dto>>

\* the existence check of createUser / createCaptain
RegisterFindOne(v, r) ==
    /\ runs[r].kind = "register" /\ runs[r].variant = v /\ runs[r].pc = "findOne"
    /\ runs' = [runs EXCEPT ![r] =
            IF FindOneByEmail(Coll(v), runs[r].email) # NoActor
            THEN asyncHandlerCatch(runs[r], Conflict(ExistsMessage(v), <<>>),
                                   nodeEnv, now)
            ELSE [runs[r] EXCEPT !.pc = "create"]]
    /\ UNCHANGED <<nodeEnv, jwtSecret, users, captains, blacklist, nextId, now,
                   issued, started, errIn, errOut, revokedLog, dto>>

\* an insert that stores the document although the index refuses it
RegisterCreate_StoresAnyway(v, r) ==
    /\ runs[r].kind = "register" /\ runs[r].variant = v /\ runs[r].pc = "create"
    /\ LET doc == [_id |-> nextId, email |-> runs[r].email,
                   password |-> runs[r].hash]
       IN IF EmailTaken(Coll(v), runs[r].email)
          THEN /\ runs' = [runs EXCEPT ![r] =
                    asyncHandlerCatch(runs[r],
                        MongoServerError(DUPLICATE_KEY, <<<<"email", runs[r].email>>>>),
                        nodeEnv, now)]
               /\ users' = IF v = "user" THEN users \cup {doc} ELSE users
               /\ captains' = IF v = "captain" THEN captains \cup {doc} ELSE captains
               /\ nextId' = nextId + 1
          ELSE /\ users' = IF v = "user" THEN users \cup {doc} ELSE users
               /\ captains' = IF v = "captain" THEN captains \cup {doc} ELSE captains
               /\ nextId' = nextId + 1
               /\ runs' = [runs EXCEPT ![r] =
                    Send([runs[r] EXCEPT !.pc = "done"],
                         ResCreated(ToJSON(doc), RegisteredMessage(v), now))]
    /\ UNCHANGED <<nodeEnv, jwtSecret, blacklist, now, issued, started, errIn, errOut, revokedLog, dto>>

\* model.create(...) under the unique index on email, then res.created
RegisterCreate(v, r) ==
    /\ runs[r].kind = "register" /\ runs[r].variant = v /\ runs[r].pc = "create"
    /\ LET doc == [_id |-> nextId, email |-> runs[r].email,
                   password |-> runs[r].hash]
       IN IF EmailTaken(Coll(v), runs[r].email)
          THEN /\ runs' = [runs EXCEPT ![r] =
                    asyncHandlerCatch(runs[r],
                        MongoServerError(DUPLICATE_KEY, <<<<"email", runs[r].email>>>>),
                        nodeEnv, now)]
               /\ UNCHANGED <<users, captains, nextId>>
          ELSE /\ users' = IF v = "user" THEN users \cup {doc} ELSE users
               /\ captains' = IF v = "captain" THEN captains \cup {doc} ELSE captains
               /\ nextId' = nextId + 1
               /\ runs' = [runs EXCEPT ![r] =
                    Send([runs[r] EXCEPT !.pc = "done"],
                         ResCreated(ToJSON(doc), RegisteredMessage(v), now))]
    /\ UNCHANGED <<nodeEnv, jwtSecret, blacklist, now, issued, started, errIn, errOut, revokedLog, dto>>

----------------------------------------------------------------------------
(* Login: controllers' login and the models' generateAuthToken *)

LoggedInMessage(v) ==
    IF v = "user" THEN "User logged in successfully" ELSE "Captain logged in successfully"

\* logins that may still mint a token
PendingLogins == {q \in Runs : runs[q].kind = "login" /\ runs[q].pc = "findOne"}

\* login up to the await of findOne
LoginStart(v, r, email, password) ==
    /\ Free(r, "login")
    /\ Cardinality(issued) + Cardinality(PendingLogins) < MaxTokens
    /\ LET errors == validationResult(v, email, password)
           run == [IdleRun EXCEPT !.kind = "login", !.variant = v,
                                  !.email = email, !.password = password]
       IN runs' = Receive(r,
            IF errors # <<>>
            THEN asyncHandlerCatch(run, BadRequest(InvalidPayloadMessage, errors),
                                   nodeEnv, now)
            ELSE IF email = "" \/ password = ""
            THEN asyncHandlerCatch(run, BadRequest(InvalidPayloadMessage, <<>>),
                                   nodeEnv, now)
            ELSE [run EXCEPT !.pc = "findOne"])
    /\ started' = started + 1
    /\ UNCHANGED <<nodeEnv, jwtSecret, users, captains, blacklist, nextId, now,
                   issued, errIn, errOut, revokedLog, dto>>

\* a login that tells an unknown email from a wrong password
LoginFind_Telling(v, r) ==
    /\ runs[r].kind = "login" /\ runs[r].variant = v /\ runs[r].pc = "findOne"
    /\ LET actor == FindOneByEmail(Coll(v), runs[r].email)
           token == JwtSign(actor._id, jwtSecret, now)
           body == IF v = "user" THEN [user |-> ToJSON(actor)]
                   ELSE [captain |-> ToJSON(actor)]
       IN IF actor = NoActor
          THEN /\ runs' = [runs EXCEPT ![r] =
                    asyncHandlerCatch(runs[r], NotFound("Account"),
                                      nodeEnv, now)]
               /\ UNCHANGED issued
          ELSE IF ~BcryptCompare(runs[r].password, actor.password)
          THEN /\ runs' = [runs EXCEPT ![r] =
                    asyncHandlerCatch(runs[r], Unauthorized("Invalid credentials"),
                                      nodeEnv, now)]
               /\ UNCHANGED issued
          ELSE IF jwtSecret = ""
          THEN /\ runs' = [runs EXCEPT ![r] =
                    asyncHandlerCatch(runs[r], RawError("Error", MissingSecretMessage),
                                      nodeEnv, now)]
               /\ UNCHANGED issued
          ELSE /\ runs' = [runs EXCEPT ![r] =
                    Send([runs[r] EXCEPT !.pc = "done", !.token = token,
                            !.setCookie = [name |-> "token", value |-> token,
                                           httpOnly |-> FALSE]],
                         ResOk(body, LoggedInMessage(v), now))]
               /\ issued' = issued \cup {token}
    /\ UNCHANGED <<nodeEnv, jwtSecret, users, captains, blacklist, nextId, now,
                   started, errIn, errOut, revokedLog, dto>>

\* findOne(...).select("+password"), comparePassword, generateAuthToken,
\* res.cookie and res.ok
LoginFind(v, r) ==
    /\ runs[r].kind = "login" /\ runs[r].variant = v /\ runs[r].pc = "findOne"
    /\ LET actor == FindOneByEmail(Coll(v), runs[r].email)
           token == JwtSign(actor._id, jwtSecret, now)
           body == IF v = "user" THEN [user |-> ToJSON(actor)]
                   ELSE [captain |-> ToJSON(actor)]
       IN IF actor = NoActor
          THEN /\ runs' = [runs EXCEPT ![r] =
                    asyncHandlerCatch(runs[r], Unauthorized("Invalid credentials"),
                                      nodeEnv, now)]
               /\ UNCHANGED issued
          ELSE IF ~BcryptCompare(runs[r].password, actor.password)
          THEN /\ runs' = [runs EXCEPT ![r] =
                    asyncHandlerCatch(runs[r], Unauthorized("Invalid credentials"),
                                      nodeEnv, now)]
               /\ UNCHANGED issued
          ELSE IF jwtSecret = ""
          THEN /\ runs' = [runs EXCEPT ![r] =
                    asyncHandlerCatch(runs[r], RawError("Error", MissingSecretMessage),
                                      nodeEnv, now)]
               /\ UNCHANGED issued
          ELSE /\ runs' = [runs EXCEPT ![r] =
                    Send([runs[r] EXCEPT !.pc = "done", !.token = token,
                            !.setCookie = [name |-> "token", value |-> token,
                                           httpOnly |-> FALSE]],
                         ResOk(body, LoggedInMessage(v), now))]
               /\ issued' = issued \cup {token}
    /\ UNCHANGED <<nodeEnv, jwtSecret, users, captains, blacklist, nextId, now,
                   started, errIn, errOut, revokedLog, dto>>

----------------------------------------------------------------------------
(* Logout *)

\* tokens a client can present: the ones it was given, an attacker's own
\* signature over a real id, and a string that is no token at all
Forged == JwtSign(1, AttackerKey, 0)
TokenInputs == issued \cup {Forged, Garbage}

\* <<cookie, Authorization header>> of a request
Credentials ==
    {<<"", <<>>>>}
    \cup {<<t, <<>>>> : t \in TokenInputs}
    \cup {<<"", <<sch, t>>>> : sch \in {"Bearer", "Basic"}, t \in issued}
    \cup {<<t, <<"Bearer", u>>>> : t \in {Garbage}, u \in issued}

\* a user logout that blacklists the tokens in circulation
UserLogout_Revoking(r) ==
    /\ Free(r, "userLogout")
    /\ runs' = Receive(r,
            Send([IdleRun EXCEPT !.kind = "logout", !.variant = "user",
                                 !.pc = "done", !.cleared = TRUE],
                 ResOk(JsString("User logged out successfully"), Undefined, now)))
    /\ started' = started + 1
    /\ blacklist' = blacklist \cup
            {[token |-> t, createdAt |-> now] : t \in {u \in issued : ~TokenTaken(blacklist, u)}}
    /\ UNCHANGED <<nodeEnv, jwtSecret, users, captains, nextId, now,
                   issued, errIn, errOut, revokedLog, dto>>

\* userAuth.controller logout
UserLogout(r) ==
    /\ Free(r, "userLogout")
    /\ runs' = Receive(r,
            Send([IdleRun EXCEPT !.kind = "logout", !.variant = "user",
                                 !.pc = "done", !.cleared = TRUE],
                 ResOk(JsString("User logged out successfully"), Undefined, now)))
    /\ started' = started + 1
    /\ UNCHANGED <<nodeEnv, jwtSecret, users, captains, blacklist, nextId, now,
                   issued, errIn, errOut, revokedLog, dto>>

\* captainAuth.controller logout up to the await of blacklistToken.create
CaptainLogoutStart(r, cookie, auth) ==
    /\ Free(r, "logout")
    /\ LET token == ExtractToken(cookie, auth)
           run == [IdleRun EXCEPT !.kind = "logout", !.variant = "captain",
                                  !.cookie = cookie, !.auth = auth,
                                  !.token = token, !.pc = "create"]
       IN runs' = Receive(r,
            IF token = ""
            THEN Send(run, ResOk(JsNull, "Captain logged out successfully", now))
            ELSE run)
    /\ started' = started + 1
    /\ UNCHANGED <<nodeEnv, jwtSecret, users, captains, blacklist, nextId, now,
                   issued, errIn, errOut, revokedLog, dto>>

\* blacklistToken.create({ token }) under the schema (token required, unique),
\* then clearCookie and res.ok
CaptainLogoutCreate(r) ==
    /\ runs[r].kind = "logout" /\ runs[r].variant = "captain" /\ runs[r].pc = "create"
    /\ IF runs[r].token = ""
       THEN /\ runs' = [runs EXCEPT ![r] =
                 asyncHandlerCatch(runs[r],
                     MongooseValidationError(
                         <<[path |-> "token", message |-> "Path token is required.",
                            value |-> runs[r].token]>>),
                     nodeEnv, now)]
            /\ UNCHANGED <<blacklist, revokedLog>>
       ELSE IF TokenTaken(blacklist, runs[r].token)
       THEN /\ runs' = [runs EXCEPT ![r] =
                 asyncHandlerCatch(runs[r],
                     MongoServerError(DUPLICATE_KEY, <<<<"token", runs[r].token>>>>),
                     nodeEnv, now)]
            /\ UNCHANGED <<blacklist, revokedLog>>
       ELSE /\ blacklist' = blacklist \cup {[token |-> runs[r].token, createdAt |-> now]}
            /\ revokedLog' = revokedLog \cup {runs[r].token}
            /\ runs' = [runs EXCEPT ![r] =
                 Send([runs[r] EXCEPT !.pc = "done", !.cleared = TRUE],
                      ResOk(JsNull, "Captain logged out successfully", now))]
    /\ UNCHANGED <<nodeEnv, jwtSecret, users, captains, nextId, now, issued,
                   started, errIn, errOut, dto>>

----------------------------------------------------------------------------
(* The token gate: authenticateUserByToken / authenticateCaptainByToken *)

\* extraction of the token, up to the await of the blacklist lookup
GateStart(v, r, cookie, auth) ==
    /\ Free(r, "gate")
    /\ LET token == ExtractToken(cookie, auth)
           run == [IdleRun EXCEPT !.kind = "gate", !.variant = v,
                                  !.cookie = cookie, !.auth = auth,
                                  !.token = token, !.steps = <<"extract">>]
       IN runs' = Receive(r,
            IF token = ""
            THEN asyncHandlerCatch(run, Unauthorized(UnauthorizedDefaultMessage),
                                   nodeEnv, now)
            ELSE [run EXCEPT !.pc = "lookup"])
    /\ started' = started + 1
    /\ UNCHANGED <<nodeEnv, jwtSecret, users, captains, blacklist, nextId, now,
                   issued, errIn, errOut, revokedLog, dto>>

\* blacklistToken.findOne, the secret check and jwt.verify, up to the await
\* of findById
GateLookup(v, r) ==
    /\ runs[r].kind = "gate" /\ runs[r].variant = v /\ runs[r].pc = "lookup"
    /\ LET looked == [runs[r] EXCEPT !.steps = Append(@, "revocation")]
           verified == [looked EXCEPT !.steps = Append(@, "verify")]
           decoded == JwtVerify(runs[r].token, jwtSecret, now)
       IN runs' = [runs EXCEPT ![r] =
            IF BlacklistFindOne(blacklist, runs[r].token) # {}
            THEN asyncHandlerCatch(looked, Unauthorized(UnauthorizedDefaultMessage),
                                   nodeEnv, now)
            ELSE IF jwtSecret = ""
            THEN asyncHandlerCatch(looked, RawError("Error", MissingSecretMessage),
                                   nodeEnv, now)
            ELSE IF ~decoded.ok
            THEN asyncHandlerCatch(verified, decoded.error, nodeEnv, now)
            ELSE [verified EXCEPT !.pc = "load", !.decodedId = decoded._id]]
    /\ UNCHANGED <<nodeEnv, jwtSecret, users, captains, blacklist, nextId, now,
                   issued, started, errIn, errOut, revokedLog, dto>>

\* findById, req.user = user, next(); on the user route next is getUser,
\* which answers res.ok(req.user)
GateLoad(v, r) ==
    /\ runs[r].kind = "gate" /\ runs[r].variant = v /\ runs[r].pc = "load"
    /\ LET actor == FindById(Coll(v), runs[r].decodedId)
           loaded == [runs[r] EXCEPT !.steps = Append(@, "load")]
           passed == [loaded EXCEPT !.steps = Append(@, "next"), !.user = actor,
                                    !.nextCalled = TRUE, !.pc = "done"]
       IN runs' = [runs EXCEPT ![r] =
            IF actor = NoActor
            THEN asyncHandlerCatch(loaded, Unauthorized(UnauthorizedDefaultMessage),
                                   nodeEnv, now)
            ELSE IF v = "user"
            THEN Send(passed, ResOk(ToJSON(actor), Undefined, now))
            ELSE passed]
    /\ UNCHANGED <<nodeEnv, jwtSecret, users, captains, blacklist, nextId, now,
                   issued, started, errIn, errOut, revokedLog, dto>>

----------------------------------------------------------------------------
(* GET /health *)

CONNECTED == 1

Health(r, readyState) ==
    /\ Free(r, "health")
    /\ LET run == [IdleRun EXCEPT !.kind = "health"]
           database == IF readyState = CONNECTED THEN "connected" ELSE "disconnected"
       IN runs' = Receive(r,
            IF database = "disconnected"
            THEN asyncHandlerCatch(run, RawError("Error", "Database connection failed"),
                                   nodeEnv, now)
            ELSE Send([run EXCEPT !.pc = "done"],
                      ResOk([message |-> "OK", database |-> database],
                            "Server is healthy", now)))
    /\ started' = started + 1
    /\ UNCHANGED <<nodeEnv, jwtSecret, users, captains, blacklist, nextId, now,
                   issued, errIn, errOut, revokedLog, dto>>

----------------------------------------------------------------------------
(* Time and the store's TTL monitor *)

Tick ==
    /\ now + ClockStep <= MaxTime
    /\ now' = now + ClockStep
    /\ UNCHANGED <<nodeEnv, jwtSecret, users, captains, blacklist, nextId, issued,
                   runs, started, errIn, errOut, revokedLog, dto>>

\* a TTL index of twelve hours
Expired_HalfDay(e, t) == e.createdAt + 12 * 60 * 60 <= t

\* a TTL index that keeps nothing
Expired_AtOnce(e, t) == e.createdAt <= t

Expired(e, t) == e.createdAt + BlacklistTTL <= t

\* MongoDB's TTL pass over the index on createdAt
TtlMonitor ==
    /\ \E e \in blacklist : Expired(e, now)
    /\ blacklist' = {e \in blacklist : ~Expired(e, now)}
    /\ UNCHANGED <<nodeEnv, jwtSecret, users, captains, nextId, now, issued,
                   runs, started, errIn, errOut, revokedLog, dto>>

----------------------------------------------------------------------------
(* The system *)

Variants == {"user", "captain"}

\* the service starts with one user and one captain already registered
SeedEmail == "a@b.com"
SeedPassword == "longpass1"
SeedActor(id) ==
    [_id |-> id, email |-> SeedEmail,
     password |-> BcryptHash(SeedPassword, CHOOSE s \in Salts : TRUE)]

\* no data: the services are not exercised alone
NoDto == [shape |-> "none"]

Init ==
    /\ nodeEnv \in {"development", "production"}
    /\ jwtSecret \in {Secret, ""}
    /\ users = {SeedActor(1)}
    /\ captains = {SeedActor(2)}
    /\ blacklist = {}
    /\ nextId = 3
    /\ now = 0
    /\ issued = {}
    /\ runs = [r \in Runs |-> IdleRun]
    /\ started = 0
    /\ errIn = NoError
    /\ errOut = NoResponse
    /\ revokedLog = {}
    /\ dto = NoDto

Next ==
    \/ \E v \in Variants, r \in Runs, e \in Emails \cup {BadEmail},
          p \in RegisterPasswords, s \in Salts : RegisterStart(v, r, e, p, s)
    \/ \E v \in Variants, r \in Runs : RegisterFindOne(v, r)
    \/ \E v \in Variants, r \in Runs : RegisterCreate(v, r)
    \/ \E v \in Variants, r \in Runs, e \in Emails \cup {BadEmail},
          p \in Passwords : LoginStart(v, r, e, p)
    \/ \E v \in Variants, r \in Runs : LoginFind(v, r)
    \/ \E r \in Runs : UserLogout(r)
    \/ \E r \in Runs, c \in Credentials : CaptainLogoutStart(r, c[1], c[2])
    \/ \E r \in Runs : CaptainLogoutCreate(r)
    \/ \E v \in Variants, r \in Runs, c \in Credentials : GateStart(v, r, c[1], c[2])
    \/ \E v \in Variants, r \in Runs : GateLookup(v, r)
    \/ \E v \in Variants, r \in Runs : GateLoad(v, r)
    \/ \E r \in Runs, rs \in {0, 1} : Health(r, rs)
    \/ Tick
    \/ TtlMonitor

Spec == Init /\ [][Next]_vars

TypeOK == now \in Times

----------------------------------------------------------------------------
(* Properties of the token gate *)

Revoked(token) == \E e \in blacklist : e.token = token

GateRun(r) == runs[r].kind = "gate"

FullGateOrder == <<"extract", "revocation", "verify", "load", "next">>

IsPrefix(p, q) == Len(p) <= Len(q) /\ \A i \in 1..Len(p) : p[i] = q[i]

\* the token of run r is signed with the service's secret, is not expired
\* and names a stored actor of the gate's variant
SoundToken(r) ==
    /\ jwtSecret # ""
    /\ \E c \in JwtDecode(runs[r].token) :
          /\ c[3] = jwtSecret
          /\ now < c[2] + TokenLifetime
          /\ \E a \in Coll(runs[r].variant) : a._id = c[1]

\* C1: a gate run whose token has an entry in the blacklist when the gate
\* looks it up ends rejected with 401 and never calls the handler, whatever
\* the token's signature, expiry and actor
C1_RevokedRejected ==
    [][\A r \in Runs :
          (GateRun(r) /\ runs[r].pc = "lookup" /\ runs'[r] # runs[r]
             /\ Revoked(runs[r].token))
          => /\ runs'[r].pc = "done"
             /\ runs'[r].res.status = UNAUTHORIZED
             /\ runs'[r].sends = 1
             /\ ~runs'[r].nextCalled]_vars

\* a gate run was rejected for revocation although its token is otherwise good
C1_Witness ==
    \E r \in Runs :
        /\ GateRun(r) /\ runs[r].pc = "done"
        /\ runs[r].steps = <<"extract", "revocation">>
        /\ runs[r].res.status = UNAUTHORIZED
        /\ Revoked(runs[r].token)
        /\ SoundToken(r)

\* what holds of a gate run in every state
C2_State ==
    \A r \in Runs : GateRun(r) =>
        /\ IsPrefix(runs[r].steps, FullGateOrder)
        /\ runs[r].nextCalled =>
              /\ runs[r].pc = "done"
              /\ runs[r].steps = FullGateOrder
              /\ runs[r].errCalls = 0
              /\ runs[r].token # ""
              /\ \E c \in JwtDecode(runs[r].token) :
                    /\ c[3] = jwtSecret
                    /\ c[1] = runs[r].user._id
              /\ runs[r].user \in Coll(runs[r].variant)
        /\ (runs[r].pc = "done" /\ runs[r].errCalls > 0) =>
              /\ ~runs[r].nextCalled
              /\ runs[r].steps # FullGateOrder
              /\ runs[r].user = NoActor
              /\ runs[r].res.status >= 400

\* what holds of every step of a gate run
C2_Step ==
    \A r \in Runs :
        /\ (GateRun(r) /\ runs[r].pc = "lookup" /\ runs'[r].pc = "load") =>
              /\ ~Revoked(runs[r].token)
              /\ JwtVerify(runs[r].token, jwtSecret, now).ok
              /\ runs'[r].decodedId = JwtVerify(runs[r].token, jwtSecret, now)._id
        /\ (GateRun(r) /\ runs[r].pc = "load" /\ runs'[r].nextCalled) =>
              \E a \in Coll(runs[r].variant) :
                  a._id = runs[r].decodedId /\ runs'[r].user = a
        /\ (GateRun(r) /\ runs[r].pc = "done" /\ GateRun(r)' /\ runs'[r] # runs[r]) =>
              runs'[r].steps \in {<<>>, <<"extract">>}

\* C2: a gate run calls next() only after extraction, a blacklist lookup
\* that found nothing, a successful verification and the load of the actor
\* named by the claims, in this order; a run that failed a step ran no later
\* step and never called the handler
C2_GateOrder == []C2_State /\ [][C2_Step]_vars

\* a gate run went through all five steps and reached the handler
C2_Witness ==
    \E r \in Runs :
        /\ GateRun(r) /\ runs[r].nextCalled
        /\ runs[r].steps = FullGateOrder
        /\ runs[r].res.status = OK

\* why a finished gate run was rejected, read off the step it failed at and
\* the error it raised
RejectCause(r) ==
    IF ~(GateRun(r) /\ runs[r].pc = "done" /\ runs[r].errCalls > 0) THEN "none"
    ELSE IF runs[r].steps = <<"extract">> THEN "missing"
    ELSE IF runs[r].raw.name = "JsonWebTokenError" THEN "malformed"
    ELSE IF runs[r].raw.name = "TokenExpiredError" THEN "expired"
    ELSE IF runs[r].steps = <<"extract", "revocation", "verify", "load">>
    THEN "no actor"
    ELSE "other"

FourCauses == {"missing", "malformed", "expired", "no actor"}

\* C3: rejections for a missing, a malformed or an expired token and for a
\* token whose actor is not stored all answer 401, and their bodies do not
\* differ in message, errorType or details
C3_Indistinguishable ==
    \A r, q \in Runs :
        (RejectCause(r) \in FourCauses /\ RejectCause(q) \in FourCauses) =>
            /\ runs[r].res.status = UNAUTHORIZED
            /\ runs[q].res.status = UNAUTHORIZED
            /\ runs[r].res.body.message = runs[q].res.body.message
            /\ runs[r].res.body.errorType = runs[q].res.body.errorType
            /\ runs[r].res.body.details = runs[q].res.body.details

----------------------------------------------------------------------------
(* Properties of registration *)

RegisterRun(r) == runs[r].kind = "register"

WithEmail(coll, email) == {a \in coll : a.email = email}

\* C4: no two stored actors of one variant have the same email
C4_UniqueEmail ==
    \A v \in Variants : \A a, b \in Coll(v) : a.email = b.email => a = b

\* two registrations of one email both got past the existence check, and
\* the collection holds one actor of that email
C4_Witness ==
    \E r, q \in Runs :
        /\ r # q /\ RegisterRun(r) /\ RegisterRun(q)
        /\ runs[r].pc = "done" /\ runs[q].pc = "done"
        /\ runs[r].variant = runs[q].variant /\ runs[r].email = runs[q].email
        /\ runs[r].res.status = CREATED
        /\ runs[q].raw.shape = "MongoServerError"
        /\ Cardinality(WithEmail(Coll(runs[r].variant), runs[r].email)) = 1

\* what holds of the step that completes a registration
C5_Step ==
    \A r \in Runs :
        (RegisterRun(r) /\ runs[r].pc \in {"findOne", "create"}
           /\ runs'[r].pc = "done") =>
        LET v == runs[r].variant
            before == Coll(v)
            after == IF v = "user" THEN users' ELSE captains'
        IN IF WithEmail(before, runs[r].email) # {}
           THEN /\ runs'[r].res.status = CONFLICT
                /\ runs'[r].sends = 1
                /\ users' = users /\ captains' = captains
           ELSE /\ runs'[r].res.status = CREATED
                /\ runs'[r].sends = 1
                /\ before \subseteq after
                /\ Cardinality(after) = Cardinality(before) + 1
                /\ Cardinality(WithEmail(after, runs[r].email)) = 1

\* C5: a registration that completes answers 409 and stores nothing when its
\* email is already stored, whether it learns so from the existence check or
\* from the insert, and answers 201 and stores one actor otherwise; so of two
\* registrations of one email exactly one gets 201 and the other 409
C5_RegisterTwice == [][C5_Step]_vars

\* the loser of a race learnt of the duplicate from the insert and got 409
C5_Witness ==
    \E r \in Runs :
        /\ RegisterRun(r) /\ runs[r].pc = "done"
        /\ runs[r].raw.shape = "MongoServerError"
        /\ runs[r].res.status = CONFLICT
        /\ nodeEnv = "production"

----------------------------------------------------------------------------
(* Properties of captain logout *)

CaptainLogoutRun(r) == runs[r].kind = "logout" /\ runs[r].variant = "captain"

\* C6: a captain logout that presents a token, blacklisted already or not,
\* answers 200, and the blacklist holds at most one entry of the token
C6_LogoutIdempotent ==
    \A r \in Runs :
        (CaptainLogoutRun(r) /\ runs[r].pc = "done" /\ runs[r].token # "") =>
            /\ runs[r].res.status = OK
            /\ Cardinality({e \in blacklist : e.token = runs[r].token}) <= 1

\* C7: a captain logout without a token produces one response, a 200,
\* forwards no error to the error handler and creates no blacklist entry
C7_LogoutNoToken ==
    \A r \in Runs :
        (CaptainLogoutRun(r) /\ runs[r].pc = "done" /\ runs[r].token = "") =>
            /\ runs[r].res.status = OK
            /\ runs[r].sends = 1
            /\ runs[r].errCalls = 0
            /\ ~Revoked("")

----------------------------------------------------------------------------
(* Properties of the error handler *)

MaskedBody(body) ==
    /\ DOMAIN body = {"status", "message", "timestamp"}
    /\ body.status = "error"
    /\ body.message = "Something went wrong!"

UnknownShape(err) == err.shape = "Error" /\ err.name = "Error"

\* C8: outside development a failure of no known shape is classified as
\* non-operational, the client gets 500 with the masked body, and the
\* failure's message is not in the response
C8_UnknownMasked ==
    \A r \in Runs :
        (nodeEnv # "development" /\ runs[r].pc = "done"
           /\ UnknownShape(runs[r].raw)) =>
            /\ ~NormalizeError(runs[r].raw).isOperational
            /\ runs[r].res.status = INTERNAL_SERVER_ERROR
            /\ MaskedBody(runs[r].res.body)
            /\ runs[r].res.body.message # runs[r].raw.message

\* C10: with the signing secret unset and outside development, no response to
\* a login or to a gated request carries the configuration error's message
C10_SecretErrorHidden ==
    \A r \in Runs :
        (nodeEnv # "development" /\ jwtSecret = "" /\ runs[r].pc = "done"
           /\ runs[r].kind \in {"login", "gate"} /\ runs[r].sends > 0) =>
            runs[r].res.body.message # MissingSecretMessage

----------------------------------------------------------------------------
(* The error classes and the error handler on their own: an error of any
   class or raw shape is raised, and the global handler answers it *)

SomeDetails == <<[field |-> "email", message |-> "Invalid email"]>>

DetailInputs == {<<>>, SomeDetails}

ErrorInputs ==
    {BadRequest(m, d) : m \in {"Bad request", "Invalid payload"},
                        d \in DetailInputs}
    \cup {Unauthorized(m) : m \in {UnauthorizedDefaultMessage, "No session"}}
    \cup {Forbidden(m) : m \in {"Forbidden", "Not your ride"}}
    \cup {NotFound(x) : x \in {"Resource", "User"}}
    \cup {Conflict(m, d) : m \in {"Resource already exists", "Email taken"},
                          d \in DetailInputs}
    \cup {ValidationProblem(d) : d \in DetailInputs}
    \cup {InternalServerError(d) : d \in DetailInputs}
    \cup {NotImplemented(d) : d \in DetailInputs}
    \cup {ServiceUnavailable(d) : d \in DetailInputs}
    \cup {RawError("Error", "connect ECONNREFUSED"),
          RawError("JsonWebTokenError", "jwt malformed"),
          RawError("TokenExpiredError", "jwt expired"),
          MongooseValidationError(<<[path |-> "email", value |-> "x",
                                     message |-> "Invalid email"]>>),
          MongooseValidationError(<<[path |-> "email", value |-> "x",
                                     message |-> "Invalid email"],
                                    [path |-> "password", value |-> "",
                                     message |-> "Path password is required."]>>),
          MongooseCastError("_id", "zz"),
          MongoServerError(DUPLICATE_KEY, <<<<"email", "a@b.com">>>>),
          MongoServerError(50, <<>>)}

\* throw e, or next(e)
ThrowError(e) ==
    /\ errIn = NoError
    /\ errIn' = e
    /\ errOut' = NoResponse
    /\ UNCHANGED <<nodeEnv, jwtSecret, users, captains, blacklist, nextId, now,
                   issued, runs, started, revokedLog, dto>>

\* the global error handler answers the raised error
HandleError ==
    /\ errIn # NoError
    /\ errOut = NoResponse
    /\ errOut' = errorHandler(errIn, nodeEnv, now)
    /\ UNCHANGED <<nodeEnv, jwtSecret, users, captains, blacklist, nextId, now,
                   issued, runs, started, errIn, revokedLog, dto>>

\* the exchange is over
ErrorSent ==
    /\ errOut # NoResponse
    /\ errIn' = NoError
    /\ errOut' = NoResponse
    /\ UNCHANGED <<nodeEnv, jwtSecret, users, captains, blacklist, nextId, now,
                   issued, runs, started, revokedLog, dto>>

NextErr ==
    \/ \E e \in ErrorInputs : ThrowError(e)
    \/ HandleError
    \/ ErrorSent

SpecErr == Init /\ [][NextErr]_vars

TaxonomyStatus(name) ==
    CASE name = "BadRequest" -> 400
      [] name = "Unauthorized" -> 401
      [] name = "Forbidden" -> 403
      [] name = "NotFound" -> 404
      [] name = "Conflict" -> 409
      [] name = "ValidationProblem" -> 422
      [] name = "InternalServerError" -> 500
      [] name = "NotImplemented" -> 501
      [] name = "ServiceUnavailable" -> 503
      [] OTHER -> 0

\* C9: an error of each class carries the status of the taxonomy, and it is
\* operational unless it is the internal error, which is not
C9_Taxonomy ==
    (errIn.shape = "AppError" /\ TaxonomyStatus(errIn.name) # 0) =>
        /\ errIn.statusCode = TaxonomyStatus(errIn.name)
        /\ errIn.isOperational = (errIn.name # "InternalServerError")

----------------------------------------------------------------------------
(* Properties of what responses disclose *)

\* does the string s contain the string sub?
Contains(s, sub) ==
    \E i \in 1..(Len(s) - Len(sub) + 1) : SubSeq(s, i, i + Len(sub) - 1) = sub

ErrorResponse(r) ==
    runs[r].pc = "done" /\ runs[r].sends > 0 /\ runs[r].res.status >= 400

\* the password submitted with request r, the hash made of it and the token
\* the request carried
SecretsOf(r) == {runs[r].password, runs[r].hash, runs[r].token} \ {""}

\* the strings of an error body's message and details
DisclosedStrings(body) ==
    {body.message}
    \cup UNION {{body.details[i][f] : f \in DOMAIN body.details[i]} :
                  i \in DOMAIN body.details}

\* C11: no error response carries the request's password, its hash or its
\* token in the message or in the details
C11_NoSecretInError ==
    \A r \in Runs : ErrorResponse(r) =>
        \A x \in SecretsOf(r) :
            \A d \in DisclosedStrings(runs[r].res.body) : ~Contains(d, x)

\* request r was answered with a success body that holds an actor
ActorResponse(r) ==
    /\ runs[r].pc = "done" /\ runs[r].sends > 0
    /\ \/ runs[r].kind = "register" /\ runs[r].res.status = CREATED
       \/ runs[r].kind = "login" /\ runs[r].res.status = OK
       \/ runs[r].kind = "gate" /\ runs[r].res.status = OK

\* the actor in that body
ActorIn(r) ==
    IF runs[r].kind = "login"
    THEN runs[r].res.body.data[runs[r].variant]
    ELSE runs[r].res.body.data

\* C12: the actor in a success body of register, login and profile has no
\* password field and none of its fields is a stored hash, while every
\* stored actor has a hash
C12_NoHashOutward ==
    /\ \A r \in Runs : ActorResponse(r) =>
          /\ "_id" \in DOMAIN ActorIn(r)
          /\ "password" \notin DOMAIN ActorIn(r)
          /\ \A f \in DOMAIN ActorIn(r) \ {"_id"} : \A a \in users \cup captains :
                ActorIn(r)[f] # a.password
    /\ \A a \in users \cup captains : a.password # ""

\* a login answered 200 with the actor whose stored record has a hash
C12_Witness ==
    \E r \in Runs :
        /\ ActorResponse(r) /\ runs[r].kind = "login"
        /\ \E a \in Coll(runs[r].variant) :
              /\ a._id = ActorIn(r)._id
              /\ a.password = BcryptHash(runs[r].password, "s1")

----------------------------------------------------------------------------
(* Properties of login *)

LoginRun(r) == runs[r].kind = "login"

\* login r passed request validation, and no stored actor of its variant has
\* its email together with a hash of its password
BadCredentials(r) ==
    /\ validationResult(runs[r].variant, runs[r].email, runs[r].password) = <<>>
    /\ ~\E a \in Coll(runs[r].variant), salt \in Salts :
           a.email = runs[r].email /\ a.password = BcryptHash(runs[r].password, salt)

C14_CookieHttpOnly ==
    \A r \in Runs :
        (LoginRun(r) /\ runs[r].pc = "done" /\ runs[r].res.status = OK) =>
            /\ runs[r].setCookie.name = "token"
            /\ runs[r].setCookie.httpOnly

----------------------------------------------------------------------------
(* Properties of tokens *)

ClaimsOf(token) == {c \in JwtDecode(token) : jwtSecret # "" /\ c[3] = jwtSecret}

\* the token of gate run r is signed with the secret, names a stored actor of
\* the run's variant and has no blacklist entry
GoodToken(r) ==
    /\ ~Revoked(runs[r].token)
    /\ \E c \in ClaimsOf(runs[r].token) :
          \E a \in Coll(runs[r].variant) : a._id = c[1]

\* what holds of the steps of a gate run with such a token
C16_Step ==
    \A r \in Runs :
        /\ (GateRun(r) /\ runs[r].pc = "lookup" /\ runs'[r] # runs[r]
              /\ GoodToken(r)) =>
              LET c == CHOOSE c \in ClaimsOf(runs[r].token) : TRUE
              IN IF now < c[2] + 24 * 60 * 60
                 THEN runs'[r].pc = "load" /\ runs'[r].decodedId = c[1]
                 ELSE /\ runs'[r].pc = "done"
                      /\ runs'[r].res.status = UNAUTHORIZED
                      /\ ~runs'[r].nextCalled
        /\ (GateRun(r) /\ runs[r].pc = "load" /\ runs'[r] # runs[r]
              /\ \E a \in Coll(runs[r].variant) : a._id = runs[r].decodedId) =>
              runs'[r].nextCalled /\ runs'[r].errCalls = 0

----------------------------------------------------------------------------
(* Properties of the blacklist *)

EntriesOf(token) == {e \in blacklist : e.token = token}

\* gate run r has just been rejected by the blacklist lookup
RejectedAsRevoked(run) ==
    /\ run.pc = "done"
    /\ run.steps = <<"extract", "revocation">>
    /\ run.raw.shape = "AppError"

\* what the claim says of the step that looks the token up
C17_Step ==
    \A r \in Runs :
        (GateRun(r) /\ runs[r].pc = "lookup" /\ runs'[r] # runs[r]) =>
            LET found == EntriesOf(runs[r].token)
            IN /\ (\E e \in found : now < e.createdAt + 24 * 60 * 60) =>
                     RejectedAsRevoked(runs'[r])
               /\ (found # {} /\ \A e \in found : now > e.createdAt + 24 * 60 * 60) =>
                     ~RejectedAsRevoked(runs'[r])

\* C17: the gate's lookup takes an entry for present at every time before 24
\* hours after its creation and for absent at every time after, deleted or not
C17_PassiveExpiry == [][C17_Step]_vars

\* C18: a token that a captain logout blacklisted and that has not expired
\* still has its entry
C18_EntryOutlivesToken ==
    \A token \in revokedLog :
        (\E c \in ClaimsOf(token) : now < c[2] + TokenLifetime) => Revoked(token)

\* the TTL pass has removed the entry of a token that a captain logout had
\* blacklisted, and the token has expired
C18_Witness ==
    \E token \in revokedLog :
        /\ token \in issued
        /\ ~Revoked(token)
        /\ \E c \in ClaimsOf(token) : now >= c[2] + TokenLifetime

----------------------------------------------------------------------------
(* Properties of token transport *)

Received(r) == GateRun(r) /\ runs[r].pc # "idle"

\* C19: the gate takes the cookie's token when there is one and the header's
\* only when there is none; with a cookie token that is no token of the
\* service the run is rejected, whatever the header carries
C19_CookieFirst ==
    \A r \in Runs : Received(r) =>
        /\ runs[r].cookie # "" => runs[r].token = runs[r].cookie
        /\ (runs[r].cookie = "" /\ runs[r].token # "") =>
              Len(runs[r].auth) >= 2 /\ runs[r].token = runs[r].auth[2]
        /\ (runs[r].pc = "done" /\ runs[r].cookie # ""
              /\ ClaimsOf(runs[r].cookie) = {}) =>
              /\ ~runs[r].nextCalled
              /\ runs[r].errCalls = 1
              /\ jwtSecret # "" => runs[r].res.status = UNAUTHORIZED

\* a request with a cookie that is no token and a header that carries a good
\* token was rejected
C19_Witness ==
    \E r \in Runs :
        /\ Received(r) /\ runs[r].pc = "done"
        /\ runs[r].cookie = Garbage
        /\ Len(runs[r].auth) = 2
        /\ \E c \in ClaimsOf(runs[r].auth[2]) :
              /\ now < c[2] + TokenLifetime
              /\ \E a \in Coll(runs[r].variant) : a._id = c[1]
        /\ ~Revoked(runs[r].auth[2])
        /\ runs[r].res.status = UNAUTHORIZED
        /\ ~runs[r].nextCalled

\* C20: a gate request without a cookie token whose Authorization header is
\* absent or of another scheme than Bearer counts as carrying no token and
\* is rejected with 401
C20_BearerOnly ==
    \A r \in Runs :
        (Received(r) /\ runs[r].pc = "done" /\ runs[r].cookie = ""
           /\ (runs[r].auth = <<>> \/ runs[r].auth[1] # "Bearer")) =>
            /\ runs[r].token = ""
            /\ runs[r].res.status = UNAUTHORIZED
            /\ ~runs[r].nextCalled

----------------------------------------------------------------------------
(* Properties of the error handler's classification *)

Answered == errIn # NoError /\ errOut # NoResponse

\* C21: the handler answers a schema violation with 422 and one detail
\* (field, message, value) for each offending field, a cast failure with 400,
\* a duplicate key with 409 and one detail naming field and value, and a
\* malformed or expired token with 401
C21_Classification ==
    Answered =>
        /\ errIn.shape = "ValidationError" =>
              /\ errOut.status = UNPROCESSABLE_ENTITY
              /\ Len(errOut.body.details) = Len(errIn.errors)
              /\ \A i \in DOMAIN errIn.errors :
                    /\ errOut.body.details[i].field = errIn.errors[i].path
                    /\ errOut.body.details[i].message = errIn.errors[i].message
                    /\ errOut.body.details[i].value = errIn.errors[i].value
        /\ errIn.shape = "CastError" => errOut.status = BAD_REQUEST
        /\ (errIn.shape = "MongoServerError" /\ errIn.code = DUPLICATE_KEY) =>
              /\ errOut.status = CONFLICT
              /\ Len(errOut.body.details) = 1
              /\ errOut.body.details[1].field = errIn.keyValue[1][1]
              /\ errOut.body.details[1].value = errIn.keyValue[1][2]
        /\ (errIn.shape = "Error"
              /\ errIn.name \in {"JsonWebTokenError", "TokenExpiredError"}) =>
              errOut.status = UNAUTHORIZED

\* in production a schema violation of two fields was answered
C21_Witness ==
    /\ Answered
    /\ nodeEnv = "production"
    /\ errIn.shape = "ValidationError"
    /\ Len(errIn.errors) = 2
    /\ errOut.status = UNPROCESSABLE_ENTITY

----------------------------------------------------------------------------
(* The services on their own: createUser / createCaptain are called with
   actor data of any shape by a caller that answers as the controllers do *)

NullDto(v) == [shape |-> "null", variant |-> v]

\* the data of a registration; "" is a missing string, hasFullName and
\* hasVehicle tell whether the nested object is there at all
Dto(v, email, password, hasFullName, firstName, hasVehicle, color, type) ==
    [shape |-> "dto", variant |-> v, email |-> email, password |-> password,
     hasFullName |-> hasFullName, firstName |-> firstName,
     hasVehicle |-> hasVehicle, color |-> color, type |-> type]

DtoInputs ==
    {NullDto(v) : v \in Variants}
    \cup {Dto("user", e, p, hf, fn, FALSE, "", "") :
            e \in {"", "a@b.com", "c@d.com"},
            p \in {"", BcryptHash("longpass1", "s1")},
            hf \in BOOLEAN, fn \in {"", "Ada"}}
    \cup {Dto("captain", e, p, hf, fn, hv, c, t) :
            e \in {"", "a@b.com", "c@d.com"},
            p \in {"", BcryptHash("longpass1", "s1")},
            hf \in BOOLEAN, fn \in {"", "Ada"},
            hv \in BOOLEAN, c \in {"", "red"}, t \in {"", "car"}}

\* reading a property of undefined
TypeError(property) ==
    RawError("TypeError",
             "Cannot read properties of undefined (reading '" \o property \o "')")

RequiredError(path) ==
    [path |-> path, message |-> "Path " \o path \o " is required.", value |-> ""]

\* the schema's required paths that the document given to create lacks
SchemaErrors(d) ==
    IF d.variant = "user" THEN <<>>
    ELSE (IF d.color = "" THEN <<RequiredError("vehicle.color")>> ELSE <<>>)
         \o (IF d.type = "" THEN <<RequiredError("vehicle.type")>> ELSE <<>>)

\* createUser / createCaptain: the error thrown, or NoError and the document
\* stored
createActor(d, coll, id) ==
    LET fails(err) == [error |-> err, doc |-> NoActor]
    IN IF d.shape = "null" THEN fails(ValidationProblem(<<>>))
       ELSE IF d.email = "" THEN fails(ValidationProblem(<<>>))
       ELSE IF ~d.hasFullName THEN fails(TypeError("firstName"))
       ELSE IF d.firstName = "" \/ d.password = ""
       THEN fails(ValidationProblem(<<>>))
       ELSE IF FindOneByEmail(coll, d.email) # NoActor
       THEN fails(Conflict(ExistsMessage(d.variant), <<>>))
       ELSE IF d.variant = "captain" /\ ~d.hasVehicle THEN fails(TypeError("color"))
       ELSE IF SchemaErrors(d) # <<>>
       THEN fails(MongooseValidationError(SchemaErrors(d)))
       ELSE IF EmailTaken(coll, d.email)
       THEN fails(MongoServerError(DUPLICATE_KEY, <<<<"email", d.email>>>>))
       ELSE [error |-> NoError,
             doc |-> [_id |-> id, email |-> d.email, password |-> d.password]]

\* const actor = await service.create(dto); res.created(actor, message)
CallCreate ==
    /\ dto # NoDto
    /\ errOut = NoResponse
    /\ LET v == dto.variant
           result == createActor(dto, Coll(v), nextId)
       IN IF result.error # NoError
          THEN /\ errIn' = result.error
               /\ errOut' = errorHandler(result.error, nodeEnv, now)
               /\ UNCHANGED <<users, captains, nextId>>
          ELSE /\ errIn' = NoError
               /\ errOut' = ResCreated(ToJSON(result.doc), RegisteredMessage(v), now)
               /\ users' = IF v = "user" THEN users \cup {result.doc} ELSE users
               /\ captains' = IF v = "captain" THEN captains \cup {result.doc}
                              ELSE captains
               /\ nextId' = nextId + 1
    /\ UNCHANGED <<nodeEnv, jwtSecret, blacklist, now, issued, runs, started,
                   revokedLog, dto>>

\* the next call
NewDto(d) ==
    /\ errOut # NoResponse
    /\ dto' = d
    /\ errIn' = NoError
    /\ errOut' = NoResponse
    /\ UNCHANGED <<nodeEnv, jwtSecret, users, captains, blacklist, nextId, now,
                   issued, runs, started, revokedLog>>

InitCreate ==
    /\ nodeEnv \in {"development", "production"}
    /\ jwtSecret = Secret
    /\ users = {SeedActor(1)}
    /\ captains = {SeedActor(2)}
    /\ blacklist = {}
    /\ nextId = 3
    /\ now = 0
    /\ issued = {}
    /\ runs = [r \in Runs |-> IdleRun]
    /\ started = 0
    /\ errIn = NoError
    /\ errOut = NoResponse
    /\ revokedLog = {}
    /\ dto \in DtoInputs

NextCreate ==
    \/ CallCreate
    \/ \E d \in DtoInputs : NewDto(d)

SpecCreate == InitCreate /\ [][NextCreate]_vars

\* the data lacks a field that the variant requires
MissingRequired(d) ==
    \/ d.shape = "null"
    \/ d.email = "" \/ d.password = ""
    \/ ~d.hasFullName \/ d.firstName = ""
    \/ d.variant = "captain" /\ (~d.hasVehicle \/ d.color = "" \/ d.type = "")

C22_Step ==
    (dto # NoDto /\ errOut = NoResponse /\ errOut' # NoResponse
       /\ MissingRequired(dto)) =>
        /\ errOut'.status = UNPROCESSABLE_ENTITY
        /\ users' = users /\ captains' = captains

\* C22: create answers 422 and stores nothing whenever the data lacks a
\* required field of the variant
C22_MissingFieldIs422 == [][C22_Step]_vars

----------------------------------------------------------------------------
(* The response helpers alone: one call of res.ok, res.created or
   res.noContent at a time, with the data and the message of the call in dto
   and the answer in errOut *)

Helpers == {"ok", "created", "noContent"}
HelperData ==
    {JsNull, JsString("done"), ToJSON(SeedActor(1)),
     [user |-> ToJSON(SeedActor(1))], [captain |-> ToJSON(SeedActor(2))]}
HelperMessages == {Undefined, "", "Saved", "User created successfully"}

HelperCall(h, data, message) ==
    [shape |-> "call", helper |-> h, data |-> data, message |-> message]
HelperCalls ==
    {HelperCall(h, d, m) : h \in Helpers, d \in HelperData, m \in HelperMessages}

\* responseMiddleware's three methods, by name
CallHelper ==
    /\ dto \in HelperCalls
    /\ errOut = NoResponse
    /\ errOut' = CASE dto.helper = "ok" -> ResOk(dto.data, dto.message, now)
                  [] dto.helper = "created" ->
                        ResCreated(dto.data, dto.message, now)
                  [] dto.helper = "noContent" -> ResNoContent(dto.message, now)
    /\ UNCHANGED <<nodeEnv, jwtSecret, users, captains, blacklist, nextId, now,
                   issued, runs, started, errIn, revokedLog, dto>>

NewCall(c) ==
    /\ errOut # NoResponse
    /\ errOut' = NoResponse
    /\ dto' = c
    /\ UNCHANGED <<nodeEnv, jwtSecret, users, captains, blacklist, nextId, now,
                   issued, runs, started, errIn, revokedLog>>

InitRes ==
    /\ nodeEnv = "production"
    /\ jwtSecret = Secret
    /\ users = {SeedActor(1)}
    /\ captains = {SeedActor(2)}
    /\ blacklist = {}
    /\ nextId = 3
    /\ now = 0
    /\ issued = {}
    /\ runs = [r \in Runs |-> IdleRun]
    /\ started = 0
    /\ errIn = NoError
    /\ errOut = NoResponse
    /\ revokedLog = {}
    /\ dto \in HelperCalls

NextRes ==
    \/ CallHelper
    \/ \E c \in HelperCalls : NewCall(c)

SpecRes == InitRes /\ [][NextRes]_vars

HelperStatus(h) ==
    CASE h = "ok" -> OK [] h = "created" -> CREATED [] h = "noContent" -> NO_CONTENT

MessageOmitted(m) == m = Undefined \/ m = ""

----------------------------------------------------------------------------
(* Properties of the health route *)

HealthRun(r) == runs[r].kind = "health" /\ runs[r].sends > 0

\* C24: GET /health answers 200 while the database is connected and 503
\* Service Unavailable while it is disconnected
C24_Health ==
    \A r \in Runs : HealthRun(r) =>
        \/ /\ runs[r].res.status = OK
           /\ runs[r].res.body.data.database = "connected"
        \/ runs[r].res.status = SERVICE_UNAVAILABLE

----------------------------------------------------------------------------
(* Properties of the stored credential *)

Actors == users \cup captains

\* the stored credential of a is a hash of password
HashOf(a, password) == \E s \in Salts : a.password = BcryptHash(password, s)

\* registration r answered 201: the actor stored for its email holds a hash
\* of the submitted password and not the password; no stored credential is a
\* plaintext
StoredHashed ==
    /\ \A r \in Runs :
          (RegisterRun(r) /\ runs[r].pc = "done" /\ runs[r].res.status = CREATED) =>
              \E a \in Coll(runs[r].variant) :
                  /\ a.email = runs[r].email
                  /\ HashOf(a, runs[r].password)
                  /\ a.password # runs[r].password
    /\ \A a \in Actors : a.password \notin Passwords

\* the statement without a condition on the request or the configuration: a
\* registered credential is stored hashed, and every login with a registered
\* email answers 200 with the registered password and 401 with another
C25_AnyPassword ==
    /\ StoredHashed
    /\ \A r \in Runs : (LoginRun(r) /\ runs[r].pc = "done") =>
          \A a \in Coll(runs[r].variant) : a.email = runs[r].email =>
              IF HashOf(a, runs[r].password)
              THEN runs[r].res.status = OK
              ELSE runs[r].res.status = UNAUTHORIZED

\* C25: a registered credential is stored as the hash of the password, never
\* as the plaintext; a later login with the same email answers 200 with the
\* same password when the signing secret is set, 401 with a different
\* password that passes the route's validation, and 400 with one that fails it
C25_Credential ==
    /\ StoredHashed
    /\ \A r \in Runs : (LoginRun(r) /\ runs[r].pc = "done") =>
          \A a \in Coll(runs[r].variant) : a.email = runs[r].email =>
              IF validationResult(runs[r].variant, runs[r].email,
                                  runs[r].password) # <<>>
              THEN runs[r].res.status = BAD_REQUEST
              ELSE IF ~HashOf(a, runs[r].password)
              THEN runs[r].res.status = UNAUTHORIZED
              ELSE jwtSecret # "" => runs[r].res.status = OK

\* an actor registered in this behaviour has logged in with its password
C25_Witness ==
    \E r \in Runs :
        /\ LoginRun(r) /\ runs[r].pc = "done" /\ runs[r].res.status = OK
        /\ \E a \in Coll(runs[r].variant) :
              /\ a._id >= nextId - 1 /\ a._id > 2
              /\ a.email = runs[r].email
              /\ HashOf(a, runs[r].password)

----------------------------------------------------------------------------
(* Properties of revocation under concurrency *)

\* gate run r takes a step
GateStep(r) == GateRun(r) /\ runs'[r] # runs[r]

\* run r has been answered 401 without reaching the handler
RejectedUnauthorized(run) ==
    /\ run.pc = "done"
    /\ run.sends = 1
    /\ run.res.status = UNAUTHORIZED
    /\ ~run.nextCalled

\* what the claim says of one step, for a token that a captain logout
\* answered with 200 has blacklisted
C26_Step ==
    \A t \in revokedLog :
        \* the entry stays for 24 hours
        /\ (Revoked(t) /\ ~(\E e \in blacklist' : e.token = t)) =>
               \A e \in EntriesOf(t) : now >= e.createdAt + 24 * 60 * 60
        \* a lookup of t after the logout rejects the run
        /\ \A r \in Runs :
              (GateStep(r) /\ runs[r].pc = "lookup" /\ runs[r].token = t
                 /\ (Revoked(t) \/ jwtSecret # "")) =>
                  RejectedUnauthorized(runs'[r])
        \* a run that goes on with t had looked it up before the logout
        /\ \A r \in Runs :
              (GateStep(r) /\ runs[r].token = t /\ runs'[r].nextCalled) =>
                  /\ runs[r].pc = "load"
                  /\ runs[r].steps = <<"extract", "revocation", "verify">>

\* C26: once a captain logout with token t has answered 200, every gate run
\* of either variant that looks t up afterwards is rejected with 401, the
\* entry staying for 24 hours and the token being expired after them; only a
\* run whose lookup was over before the entry was created can still pass
C26_RevokedForBoth == [][C26_Step]_vars

\* a gate run looked its token up, a captain logout then blacklisted the
\* token and answered 200, and the run has passed
C26_Witness ==
    \E r, q \in Runs :
        /\ GateRun(r) /\ runs[r].nextCalled
        /\ runs[r].token \in revokedLog /\ Revoked(runs[r].token)
        /\ CaptainLogoutRun(q) /\ runs[q].token = runs[r].token
        /\ runs[q].pc = "done" /\ runs[q].res.status = OK
        /\ runs[q].raw = NoError

----------------------------------------------------------------------------
(* Properties of user logout *)

UserLogoutRun(r) == runs[r].kind = "logout" /\ runs[r].variant = "user"

UserGateStep(r) == GateStep(r) /\ runs[r].variant = "user"

\* what the claim says of one step; the handler reads no token, so a user
\* logout is the logout of every token's owner
C27_Step ==
    \A r \in Runs :
        \* user logout clears the cookie, answers 200 and writes no entry
        /\ (runs'[r] # runs[r] /\ runs'[r].kind = "logout"
              /\ runs'[r].variant = "user") =>
               /\ blacklist' = blacklist
               /\ runs'[r].cleared
               /\ runs'[r].res.status = OK
        \* an unexpired token of a user without an entry passes the lookup
        /\ (UserGateStep(r) /\ runs[r].pc = "lookup" /\ SoundToken(r)) =>
               IF Revoked(runs[r].token)
               THEN RejectedUnauthorized(runs'[r])
               ELSE runs'[r].pc = "load"
        \* and reaches the handler
        /\ (UserGateStep(r) /\ runs[r].pc = "load"
              /\ \E a \in users : a._id = runs[r].decodedId) =>
               /\ runs'[r].nextCalled
               /\ runs'[r].res.status = OK

\* C27: user logout only clears the cookie and writes no blacklist entry; a
\* token presented to the user gate after a user logout still passes until
\* it expires, unlike a token that a captain logout has blacklisted
C27_UserLogoutKeepsToken == [][C27_Step]_vars

\* a user gate run has passed after a user logout was answered
C27_Witness ==
    \E r, q \in Runs :
        /\ UserLogoutRun(q) /\ runs[q].pc = "done" /\ runs[q].cleared
        /\ runs[q].res.status = OK
        /\ GateRun(r) /\ runs[r].variant = "user" /\ runs[r].nextCalled
        /\ runs[r].token \in issued
        /\ ~Revoked(runs[r].token)

----------------------------------------------------------------------------
(* Sessions side by side: a stored actor who logged in twice, twelve hours
   apart, holds two tokens; captain logouts and gate runs with them *)

SessionTokens(id) == {JwtSign(id, Secret, 0), JwtSign(id, Secret, ClockStep)}

InitSession ==
    /\ nodeEnv = "production"
    /\ jwtSecret = Secret
    /\ users = {SeedActor(1)}
    /\ captains = {SeedActor(2)}
    /\ blacklist = {}
    /\ nextId = 3
    /\ now = ClockStep
    /\ \E id \in {1, 2} : issued = SessionTokens(id)
    /\ runs = [r \in Runs |-> IdleRun]
    \* the logins are over; a logout and a gate run follow
    /\ started = MaxRequests - 2
    /\ errIn = NoError
    /\ errOut = NoResponse
    /\ revokedLog = {}
    /\ dto = NoDto

NextSession ==
    \/ \E r \in Runs, c \in Credentials : CaptainLogoutStart(r, c[1], c[2])
    \/ \E r \in Runs : CaptainLogoutCreate(r)
    \/ \E v \in Variants, r \in Runs, c \in Credentials : GateStart(v, r, c[1], c[2])
    \/ \E v \in Variants, r \in Runs : GateLookup(v, r)
    \/ \E v \in Variants, r \in Runs : GateLoad(v, r)
    \/ Tick
    \/ TtlMonitor

SpecSession == InitSession /\ [][NextSession]_vars

\* another token of the actor of token u has been blacklisted by a captain
\* logout
OtherRevoked(u) ==
    \E t \in revokedLog :
        /\ t # u /\ Revoked(t)
        /\ \E c \in ClaimsOf(t), d \in ClaimsOf(u) : c[1] = d[1]

\* what the claim says of one step
C28_Step ==
    \A r \in Runs :
        \* a step of a captain logout touches the entry of its token alone
        /\ (runs'[r] # runs[r] /\ runs'[r].kind = "logout"
              /\ runs'[r].variant = "captain") =>
               /\ users' = users /\ captains' = captains /\ issued' = issued
               /\ blacklist \subseteq blacklist'
               /\ \A e \in blacklist' \ blacklist : e.token = runs'[r].token
        \* the actor's other token, unexpired and without an entry of its own,
        \* goes on passing the gate
        /\ (GateStep(r) /\ runs[r].pc = "lookup" /\ SoundToken(r)
              /\ ~Revoked(runs[r].token) /\ OtherRevoked(runs[r].token)) =>
               runs'[r].pc = "load"
        /\ (GateStep(r) /\ runs[r].pc = "load" /\ OtherRevoked(runs[r].token)
              /\ \E a \in Coll(runs[r].variant) : a._id = runs[r].decodedId) =>
               runs'[r].nextCalled

\* C28: a captain logout for token t changes only the blacklist entry of t;
\* it leaves users and captains as they were, and every other unexpired
\* token of the same actor goes on being accepted by the gate
C28_LogoutFrame == [][C28_Step]_vars

\* a gate run has passed with one token of an actor after a captain logout
\* blacklisted the actor's other token
C28_Witness ==
    \E r \in Runs :
        /\ GateRun(r) /\ runs[r].nextCalled
        /\ runs[r].token \in issued
        /\ ~Revoked(runs[r].token)
        /\ OtherRevoked(runs[r].token)

----------------------------------------------------------------------------
(* Properties of failed logins *)

\* what the client gets for bad credentials
InvalidCredentials == errorHandler(Unauthorized("Invalid credentials"), nodeEnv, now)

KnownEmail(r) == \E a \in Coll(runs[r].variant) : a.email = runs[r].email

----------------------------------------------------------------------------
(* Properties of registration and the collections *)

\* what the claim says of one step
C30_Step ==
    /\ \A r \in Runs :
          (runs'[r] # runs[r] /\ runs'[r].kind = "register") =>
              IF runs'[r].pc = "done" /\ runs'[r].res.status = CREATED
              THEN LET v == runs'[r].variant
                       before == Coll(v)
                       after == IF v = "user" THEN users' ELSE captains'
                   IN /\ \E a \in after \ before :
                            /\ after = before \cup {a}
                            /\ a.email = runs'[r].email
                      /\ v = "user" => captains' = captains
                      /\ v = "captain" => users' = users
              ELSE users' = users /\ captains' = captains
    \* nothing else stores an actor
    /\ (users' # users \/ captains' # captains) =>
          \E r \in Runs :
              /\ RegisterRun(r) /\ runs[r].pc = "create"
              /\ runs'[r].pc = "done" /\ runs'[r].res.status = CREATED

\* C30: a registration that ends in an error response leaves both
\* collections as they were, and one that answers 201 adds exactly one actor,
\* whose email is the submitted email
C30_RegisterAtomic == [][C30_Step]_vars

\* a registration was refused with 400 and the collections hold the stored
\* actors alone
C30_Witness ==
    \E r \in Runs :
        /\ RegisterRun(r) /\ runs[r].pc = "done"
        /\ runs[r].res.status = BAD_REQUEST
        /\ users = {SeedActor(1)} /\ captains = {SeedActor(2)}

====
